---- MODULE Spec2Model ----
(***************************************************************************)
(* Model of static/js/charts.js: the telemetry poll loop (tick), the       *)
(* bounded history arrays (pushLimited), the KPI formatter (fmt), the      *)
(* recommendation table (recommend) and the stress controls.               *)
(*                                                                         *)
(* Numbers are fixed-point hundredths: the integer 7500 is the JavaScript  *)
(* number 75, 70 is 0.7, 400 is 4.0.  A JavaScript value is a record       *)
(* [k, n, s]: k its type tag, n its numeric payload, s its string payload. *)
(***************************************************************************)
EXTENDS Integers, Sequences, FiniteSets, TLC

\* ------------------------------------------------------------------ bounds
\* Ticks issued in one run (the startup tick and the timer's).
MaxTicks == 2
\* Seconds the wall clock can advance in one run.
MaxNow == 1
\* Stress POSTs in flight at once.
MaxStress == 1

\* ------------------------------------------------------------------ config
\* The capacity of the history arrays.  The source sets HISTORY_MAX = 30 and
\* uses it only as the default of pushLimited's max parameter; the model runs
\* the same code at a small capacity, so that a run of MaxTicks appends
\* exceeds it.
HISTORY_MAX == 1

\* recommend's thresholds, in hundredths.
RISK_CRITICAL == 70
RISK_WARNING == 50
TEMP_LIMIT == 7500
PRESSURE_LIMIT == 400

\* The HTTP statuses a response can carry: one 2xx, one non-2xx.
Statuses == {200, 500}

Channels ==
  {"temperature_c", "pressure_bar", "load_pct", "throughput", "vibration", "humidity"}

\* ------------------------------------------------------- JavaScript values
Undefined == [k |-> "undefined", n |-> 0, s |-> ""]
Null == [k |-> "null", n |-> 0, s |-> ""]
NaN == [k |-> "nan", n |-> 0, s |-> ""]
Obj == [k |-> "object", n |-> 0, s |-> ""]
Num(x) == [k |-> "number", n |-> x, s |-> ""]
Str(t) == [k |-> "string", n |-> 0, s |-> t]
Bool(b) == [k |-> "boolean", n |-> IF b THEN 1 ELSE 0, s |-> ""]

\* The strings of the model that parse as a number, with their value.
NumericStrings == ("80" :> 8000) @@ ("12" :> 1200)

\* Number(v)
ToNumber(v) ==
  CASE v.k = "undefined" -> NaN
    [] v.k = "null" -> Num(0)
    [] v.k = "boolean" -> Num(v.n * 100)
    [] v.k = "number" -> v
    [] v.k = "nan" -> NaN
    [] v.k = "string" ->
         IF v.s = "" THEN Num(0)
         ELSE IF v.s \in DOMAIN NumericStrings THEN Num(NumericStrings[v.s])
         ELSE NaN
    [] OTHER -> NaN

\* v ?? d
Nullish(v, d) == IF v.k \in {"undefined", "null"} THEN d ELSE v

\* v in a boolean context (v || d, if (v))
Truthy(v) ==
  CASE v.k \in {"undefined", "null", "nan"} -> FALSE
    [] v.k = "boolean" -> v.n = 1
    [] v.k = "number" -> v.n # 0
    [] v.k = "string" -> v.s # ""
    [] OTHER -> TRUE

\* v >= x and v > x against a number x: false when v is not a number
JsGe(v, x) == LET a == ToNumber(v) IN a.k = "number" /\ a.n >= x
JsGt(v, x) == LET a == ToNumber(v) IN a.k = "number" /\ a.n > x

Pow10(d) == IF d = 0 THEN 1 ELSE IF d = 1 THEN 10 ELSE 100

\* Number.prototype.toFixed(d), d in 0..2: the nearest multiple of 10^-d,
\* the larger one on a tie, printed with exactly d decimals.
ToFixed(a, d) ==
  IF a.k # "number" THEN "NaN"
  ELSE LET mag == IF a.n < 0 THEN 0 - a.n ELSE a.n
           r == (mag * Pow10(d) + 50) \div 100
           whole == ToString(r \div Pow10(d))
           frac == r % Pow10(d)
           digits == IF d = 0 THEN ""
                     ELSE IF d = 2 /\ frac < 10 THEN ".0" \o ToString(frac)
                     ELSE "." \o ToString(frac)
       IN (IF a.n < 0 THEN "-" ELSE "") \o whole \o digits

\* String(v)
JsString(v) ==
  CASE v.k = "undefined" -> "undefined"
    [] v.k = "null" -> "null"
    [] v.k = "nan" -> "NaN"
    [] v.k = "boolean" -> IF v.n = 1 THEN "true" ELSE "false"
    [] v.k = "string" -> v.s
    [] v.k = "number" ->
         IF v.n % 100 = 0 THEN ToFixed(v, 0)
         ELSE IF v.n % 10 = 0 THEN ToFixed(v, 1)
         ELSE ToFixed(v, 2)
    [] OTHER -> "[object Object]"

\* ------------------------------------------------------------------- utils
\* pushLimited with the trim one element late.
pushLimitedLate(arr, v, max) ==
  LET a == Append(arr, v)
  IN IF Len(a) > max + 1 THEN SubSeq(a, Len(a) - max + 1, Len(a)) ELSE a

\* pushLimited with the trim at the wrong end: arr.splice(max).
pushLimitedKeepOldest(arr, v, max) ==
  LET a == Append(arr, v)
  IN IF Len(a) > max THEN SubSeq(a, 1, max) ELSE a

\* function pushLimited(arr, v, max = HISTORY_MAX)
pushLimited(arr, v, max) ==
  LET a == Append(arr, v)
  IN IF Len(a) > max THEN SubSeq(a, Len(a) - max + 1, Len(a)) ELSE a

\* function fmt(v, d=2)
fmt(v, d) ==
  IF v.k = "null" \/ v.k = "undefined" \/ v.k = "nan" THEN "--"
  ELSE ToFixed(ToNumber(v), d)

\* --------------------------------------------------------- recommendation
MSG_DISTANCE == "Show the ArUco marker to enable precise distance monitoring."
MSG_CRITICAL == "CRITICAL - Auto-STOP active. Increase distance and lower load."
MSG_REDUCE == "WARNING - Reduce speed/load to drop temperature/pressure."
MSG_MAINTAIN == "WARNING - Maintain distance and monitor vibration levels."
MSG_SAFE == "SAFE - Conditions nominal. Maintain current settings."

\* recommend with the risk rule ahead of the distance rule.
recommendCriticalFirst(s, risk, d) ==
  IF JsGe(risk, RISK_CRITICAL) THEN MSG_CRITICAL
  ELSE IF d.k \in {"null", "undefined"} THEN MSG_DISTANCE
  ELSE IF JsGe(risk, RISK_WARNING) THEN
    IF JsGt(s["temperature_c"], TEMP_LIMIT) \/ JsGt(s["pressure_bar"], PRESSURE_LIMIT)
    THEN MSG_REDUCE
    ELSE MSG_MAINTAIN
  ELSE MSG_SAFE

\* function recommend(s, risk, d)
recommend(s, risk, d) ==
  IF d.k \in {"null", "undefined"} THEN MSG_DISTANCE
  ELSE IF JsGe(risk, RISK_CRITICAL) THEN MSG_CRITICAL
  ELSE IF JsGe(risk, RISK_WARNING) THEN
    IF JsGt(s["temperature_c"], TEMP_LIMIT) \/ JsGt(s["pressure_bar"], PRESSURE_LIMIT)
    THEN MSG_REDUCE
    ELSE MSG_MAINTAIN
  ELSE MSG_SAFE

\* ------------------------------------------------------ telemetry frames
NoSensors == [c \in Channels |-> Undefined]

\* A response body that parsed to an object: the fields tick reads.  A field
\* the object lacks is Undefined; sensors and stress are objects or absent.
Frame(sensors, s, risk, dist, state, stress, active, left) ==
  [sensors |-> sensors, s |-> s, risk |-> risk, distance_m |-> dist,
   system_state |-> state, stress |-> stress, active |-> active,
   seconds_left |-> left]

\* A well-formed frame: nominal readings, low risk, marker in view.
FrameNominal ==
  Frame(TRUE,
        [c \in Channels |->
           CASE c = "temperature_c" -> Num(6025)
             [] c = "pressure_bar" -> Num(200)
             [] c = "load_pct" -> Num(4050)
             [] c = "throughput" -> Num(12000)
             [] c = "vibration" -> Num(125)
             [] OTHER -> Num(4500)],
        Num(20), Num(120), Str("RUNNING"), TRUE, Bool(FALSE), Num(0))

\* A well-formed frame at the critical boundary, stress scenario running.
FrameCritical ==
  Frame(TRUE,
        [c \in Channels |->
           CASE c = "temperature_c" -> Num(8000)
             [] c = "pressure_bar" -> Num(410)
             [] OTHER -> Num(9000)],
        Num(70), Num(80), Str("STOPPED"), TRUE, Bool(TRUE), Num(1200))

\* The empty object {}: every field missing.  A body that is a JSON number,
\* string, boolean or array reads the same way: each field is undefined.
FrameEmpty ==
  Frame(FALSE, NoSensors, Undefined, Undefined, Undefined, FALSE, Undefined, Undefined)

\* A frame whose numeric fields are not numbers.
FrameMalformed ==
  Frame(TRUE,
        [c \in Channels |->
           CASE c = "temperature_c" -> Str("abc")
             [] c = "pressure_bar" -> Null
             [] c = "load_pct" -> Str("80")
             [] c = "throughput" -> Obj
             [] c = "vibration" -> Bool(TRUE)
             [] OTHER -> Undefined],
        Str("abc"), Num(120), Str("FAULT"), TRUE, Bool(TRUE), Undefined)

Frames == {FrameNominal, FrameCritical, FrameEmpty, FrameMalformed}

\* ------------------------------------------------------------------- state
\* The elements the page can hold, by the group tick and the listeners look up.
AllSlots ==
  {"kpi", "charts", "system-state", "stress-banner", "stress-timer",
   "recommendation", "buttons"}
Pages == {AllSlots, {}}

Ticks == 1..MaxTicks

VARIABLES
  main,         \* the script's position: "load", "armed" (line 164 done), "started"
  issuedBy,     \* who issued each tick, in issue order: "startup" or "timer"
  pc,           \* each tick's position: idle, fetch (line 116), json (line 117), or how it ended
  status,       \* the HTTP status of the response a tick holds at line 117
  now,          \* the wall clock, in seconds
  labels,       \* let labels
  sensorsHist,  \* let sensorsHist
  riskHist,     \* let riskHist
  log,          \* history variable: every frame appended so far, in append order
  page,         \* the slots the document holds
  domReady,     \* DOMContentLoaded has been dispatched
  kpi,          \* the text of each KPI value element
  sensorChart,  \* the sensor chart: whether it exists and what it last drew
  riskChart,    \* the risk chart
  stateText,    \* #system-state textContent
  stateClasses, \* #system-state classList
  transform,    \* #system-state style.transform
  bannerHidden, \* #stress-banner has class d-none
  timerText,    \* #stress-timer textContent
  recText,      \* #recommendation textContent
  stressPosts,  \* stress POSTs in flight
  call          \* a call of fmt or recommend on its own: arguments and result

hist == <<labels, sensorsHist, riskHist>>
dom == <<kpi, sensorChart, riskChart, stateText, stateClasses, transform,
         bannerHidden, timerText, recText>>
\* What no step of the program changes.
env == <<page, call>>
vars == <<main, issuedBy, pc, status, now, hist, log, env, domReady, dom, stressPosts>>

Endpoints == {"start", "stop"}
Unmounted == "(no element)"

\* A call record: fn is "none" in the running program.
Call(fn, temp, pres, risk, d, v, prec, ret) ==
  [fn |-> fn, temp |-> temp, pres |-> pres, risk |-> risk, d |-> d, v |-> v,
   prec |-> prec, ret |-> ret]
NoCall == Call("none", Undefined, Undefined, Undefined, Undefined, Undefined, 0, "")
Pending == "(pending)"

\* The page as the script finds it.
InitProgram ==
  /\ main = "load"
  /\ issuedBy = <<>>
  /\ pc = [t \in Ticks |-> "idle"]
  /\ status = [t \in Ticks |-> 0]
  /\ now = 0
  /\ labels = <<>>
  /\ sensorsHist = [c \in Channels |-> <<>>]
  /\ riskHist = <<>>
  /\ log = <<>>
  /\ page \in Pages
  /\ domReady = FALSE
  /\ kpi = [c \in Channels |-> Unmounted]
  /\ sensorChart = [made |-> FALSE, labels |-> <<>>, data |-> [c \in Channels |-> <<>>]]
  /\ riskChart = [made |-> FALSE, labels |-> <<>>, data |-> <<>>]
  /\ stateText = ""
  /\ stateClasses = {}
  /\ transform = ""
  /\ bannerHidden = TRUE
  /\ timerText = ""
  /\ recText = ""
  /\ stressPosts = 0

Init == InitProgram /\ call = NoCall

\* --------------------------------------------------------------- poll loop
\* new Date().toLocaleTimeString(): the clock's reading, to the second.
TimeString(n) == "12:00:0" \o ToString(n)

\* The coercion without its default: Number(v).
CoerceNoDefault(v) == ToNumber(v)

\* Number(v ?? 0): what tick stores for a channel value and for risk.
Coerce(v) == ToNumber(Nullish(v, Num(0)))

\* data.sensors||{}
SensorsRead(data) == IF data.sensors THEN data.s ELSE NoSensors

\* The precision tick passes to fmt for each KPI.
Precision(c) ==
  CASE c = "temperature_c" -> 1
    [] c = "pressure_bar" -> 2
    [] c = "vibration" -> 2
    [] OTHER -> 0

\* fetch("/sensor_data") at the start of tick: the request goes out and the
\* async function suspends at its first await.
Issue(origin) ==
  /\ Len(issuedBy) < MaxTicks
  /\ issuedBy' = Append(issuedBy, origin)
  /\ pc' = [pc EXCEPT ![Len(issuedBy) + 1] = "fetch"]

\* setInterval(tick, POLL_MS)
SetInterval ==
  /\ main = "load"
  /\ main' = "armed"
  /\ UNCHANGED <<issuedBy, pc, status, now, hist, log, env, domReady, dom, stressPosts>>

\* The script without its last line: the first tick is left to the timer.
StartupTickSkipped ==
  /\ main = "armed"
  /\ main' = "started"
  /\ UNCHANGED <<issuedBy, pc, status, now, hist, log, env, domReady, dom, stressPosts>>

\* tick() on the script's last line
StartupTick ==
  /\ main = "armed"
  /\ main' = "started"
  /\ Issue("startup")
  /\ UNCHANGED <<status, now, hist, log, env, domReady, dom, stressPosts>>

\* A poller that skips the interval while a request is in flight.
TimerFireWhenIdle ==
  /\ main = "started"
  /\ \A t \in Ticks : pc[t] \notin {"fetch", "json"}
  /\ Issue("timer")
  /\ UNCHANGED <<main, status, now, hist, log, env, domReady, dom, stressPosts>>

\* The interval timer calls tick.  A timer callback runs only between tasks,
\* so not before the script has run to its end; it asks nothing of the
\* earlier ticks.
TimerFire ==
  /\ main = "started"
  /\ Issue("timer")
  /\ UNCHANGED <<main, status, now, hist, log, env, domReady, dom, stressPosts>>

\* The wall clock passes a second boundary.
ClockAdvance ==
  /\ now < MaxNow
  /\ now' = now + 1
  /\ UNCHANGED <<main, issuedBy, pc, status, hist, log, env, domReady, dom, stressPosts>>

\* await fetch(...) resolves with a response of any status.
FetchResolve(t, st) ==
  /\ pc[t] = "fetch"
  /\ pc' = [pc EXCEPT ![t] = "json"]
  /\ status' = [status EXCEPT ![t] = st]
  /\ UNCHANGED <<main, issuedBy, now, hist, log, env, domReady, dom, stressPosts>>

\* A tick that pushes its label before the first await: the catch block
\* leaves the label behind.
AbandonLabelled(t, how) ==
  /\ pc' = [pc EXCEPT ![t] = how]
  /\ status' = [status EXCEPT ![t] = 0]
  /\ labels' = pushLimited(labels, TimeString(now), HISTORY_MAX)
  /\ UNCHANGED <<main, issuedBy, now, sensorsHist, riskHist, log, env, domReady, dom,
                 stressPosts>>

\* A catch block that reports the failure on the page: the KPI values fall
\* back to "--" and the recommendation reads "poll failed".
AbandonReported(t, how) ==
  /\ pc' = [pc EXCEPT ![t] = how]
  /\ status' = [status EXCEPT ![t] = 0]
  /\ kpi' = IF domReady /\ "kpi" \in page THEN [c \in Channels |-> "--"] ELSE kpi
  /\ recText' = IF "recommendation" \in page THEN "poll failed" ELSE recText
  /\ UNCHANGED <<main, issuedBy, now, hist, log, env, domReady, sensorChart,
                 riskChart, stateText, stateClasses, transform, bannerHidden,
                 timerText, stressPosts>>

\* catch(e){ console.error("poll failed", e); }: the tick ends as `how`.
Abandon(t, how) ==
  /\ pc' = [pc EXCEPT ![t] = how]
  /\ status' = [status EXCEPT ![t] = 0]
  /\ UNCHANGED <<main, issuedBy, now, hist, log, env, domReady, dom, stressPosts>>

\* await fetch(...) rejects: the network is unreachable.
FetchReject(t) ==
  /\ pc[t] = "fetch"
  /\ Abandon(t, "netfail")

\* await r.json() rejects: the body is not JSON.
JsonReject(t) ==
  /\ pc[t] = "json"
  /\ Abandon(t, "jsonfail")

\* await r.json() resolves to null: data.sensors throws a TypeError.
JsonNull(t) ==
  /\ pc[t] = "json"
  /\ Abandon(t, "typeerror")

\* The 8 pushes with the risk push landing one frame late: the index that
\* takes this frame's label and sensors takes the risk of the frame before.
AppendFrameTorn(ts, s, risk) ==
  /\ labels' = pushLimited(labels, ts, HISTORY_MAX)
  /\ sensorsHist' =
       [c \in Channels |-> pushLimited(sensorsHist[c], Coerce(s[c]), HISTORY_MAX)]
  /\ riskHist' = pushLimited(riskHist,
                             IF riskHist = <<>> THEN risk ELSE riskHist[Len(riskHist)],
                             HISTORY_MAX)

\* The 8 pushLimited calls of tick; ts is the label read on line 122.
AppendFrame(ts, s, risk) ==
  /\ labels' = pushLimited(labels, ts, HISTORY_MAX)
  /\ sensorsHist' =
       [c \in Channels |-> pushLimited(sensorsHist[c], Coerce(s[c]), HISTORY_MAX)]
  /\ riskHist' = pushLimited(riskHist, risk, HISTORY_MAX)

\* sensorChart?.update(); riskChart?.update(): a chart redraws the arrays it
\* was built on.
UpdateCharts ==
  /\ sensorChart' =
       IF sensorChart.made
       THEN [sensorChart EXCEPT !.labels = labels', !.data = sensorsHist']
       ELSE sensorChart
  /\ riskChart' =
       IF riskChart.made
       THEN [riskChart EXCEPT !.labels = labels', !.data = riskHist']
       ELSE riskChart

\* The 6 setKPI calls: a no-op for a value element that is not mounted.
SetKPIs(s) ==
  kpi' = IF domReady /\ "kpi" \in page
         THEN [c \in Channels |-> fmt(s[c], Precision(c))]
         ELSE kpi

\* The system-state block with the classes taken from the text on display
\* instead of from data.system_state.
SetSystemStateByText(data) ==
  IF "system-state" \in page
  THEN /\ stateText' = IF Truthy(data.system_state)
                       THEN JsString(data.system_state) ELSE "RUNNING"
       /\ stateClasses' =
            {cl \in {"status-running", "status-stopped"} :
               \/ cl = "status-running" /\ stateText' = "RUNNING"
               \/ cl = "status-stopped" /\ stateText' = "STOPPED"}
       /\ transform' = "scale(1.04)"
  ELSE UNCHANGED <<stateText, stateClasses, transform>>

\* The system-state block with classList.add in place of the forced toggle:
\* a class is set on a match and never cleared.
SetSystemStateAddOnly(data) ==
  IF "system-state" \in page
  THEN /\ stateText' = IF Truthy(data.system_state)
                       THEN JsString(data.system_state) ELSE "RUNNING"
       /\ stateClasses' = stateClasses \cup
            {cl \in {"status-running", "status-stopped"} :
               \/ cl = "status-running" /\ data.system_state = Str("RUNNING")
               \/ cl = "status-stopped" /\ data.system_state = Str("STOPPED")}
       /\ transform' = "scale(1.04)"
  ELSE UNCHANGED <<stateText, stateClasses, transform>>

\* The system-state block.  The 120 ms timeout that ends the pulse is
\* PulseEnd below.
SetSystemState(data) ==
  IF "system-state" \in page
  THEN /\ stateText' = IF Truthy(data.system_state)
                       THEN JsString(data.system_state) ELSE "RUNNING"
       /\ stateClasses' =
            {cl \in {"status-running", "status-stopped"} :
               \/ cl = "status-running" /\ data.system_state = Str("RUNNING")
               \/ cl = "status-stopped" /\ data.system_state = Str("STOPPED")}
       /\ transform' = "scale(1.04)"
  ELSE UNCHANGED <<stateText, stateClasses, transform>>

\* The stress banner block without its else branch: the banner is shown and
\* never hidden again.
SetStressBannerNeverHides(data) ==
  LET active == IF data.stress THEN data.active ELSE Bool(FALSE)
      left == IF data.stress THEN data.seconds_left ELSE Num(0)
  IN IF "stress-banner" \in page /\ "stress-timer" \in page /\ Truthy(active)
     THEN bannerHidden' = FALSE /\ timerText' = JsString(left)
     ELSE UNCHANGED <<bannerHidden, timerText>>

\* The stress banner block.
SetStressBanner(data) ==
  LET active == IF data.stress THEN data.active ELSE Bool(FALSE)
      left == IF data.stress THEN data.seconds_left ELSE Num(0)
  IN IF "stress-banner" \in page /\ "stress-timer" \in page
     THEN IF Truthy(active)
          THEN bannerHidden' = FALSE /\ timerText' = JsString(left)
          ELSE bannerHidden' = TRUE /\ UNCHANGED timerText
     ELSE UNCHANGED <<bannerHidden, timerText>>

\* The recommendation block.
SetRecommendation(s, risk, dist) ==
  recText' = IF "recommendation" \in page THEN recommend(s, risk, dist) ELSE recText

\* Lines 118-160 of tick for the parsed body data, ts being the label that
\* line 122 reads.
ProcessAt(t, data, ts) ==
  LET s == SensorsRead(data)
      risk == Coerce(data.risk)
      dist == data.distance_m
  IN /\ AppendFrame(ts, s, risk)
     /\ log' = Append(log, [tick |-> t, label |-> ts, frame |-> data])
     /\ UpdateCharts
     /\ SetKPIs(s)
     /\ SetSystemState(data)
     /\ SetStressBanner(data)
     /\ SetRecommendation(s, risk, dist)
     /\ pc' = [pc EXCEPT ![t] = "appended"]
     /\ status' = [status EXCEPT ![t] = 0]
     /\ UNCHANGED <<main, issuedBy, now, env, domReady, stressPosts>>

\* tick with a staleness check: a response that arrives after a later tick's
\* frame was appended is dropped.
ProcessDropStale(t, data) ==
  IF \E j \in 1..Len(log) : log[j].tick > t
  THEN /\ pc' = [pc EXCEPT ![t] = "appended"]
       /\ status' = [status EXCEPT ![t] = 0]
       /\ UNCHANGED <<main, issuedBy, now, hist, log, env, domReady, dom, stressPosts>>
  ELSE ProcessAt(t, data, TimeString(now))

\* tick with the label read before the request is sent: the startup tick
\* goes out at second 0 and the timer's k-th tick at second k.
ProcessLabelAtIssue(t, data) == ProcessAt(t, data, TimeString(t - 1))

\* await r.json() resolves to an object: the rest of tick runs to its end
\* without suspending, and reads the clock as it goes.
Process(t, data) == ProcessAt(t, data, TimeString(now))

JsonResolve(t, data) ==
  /\ pc[t] = "json"
  /\ Process(t, data)

\* setTimeout(()=>stateEl.style.transform="scale(1.0)",120).  Every pulse
\* sets scale(1.04) and arms one timeout, and every timeout writes the same
\* value, so the timeouts still armed are those of a scale(1.04) on display
\* or change nothing.
PulseEnd ==
  /\ transform = "scale(1.04)"
  /\ transform' = "scale(1.0)"
  /\ UNCHANGED <<main, issuedBy, pc, status, now, hist, log, env, domReady, kpi,
                 sensorChart, riskChart, stateText, stateClasses, bannerHidden,
                 timerText, recText, stressPosts>>

\* -------------------------------------------------------- DOMContentLoaded
\* The three DOMContentLoaded listeners: mount the KPI cards, build the two
\* charts on the history arrays, wire the stress buttons.
DOMContentLoaded ==
  /\ main = "started"
  /\ ~domReady
  /\ domReady' = TRUE
  /\ kpi' = IF "kpi" \in page THEN [c \in Channels |-> "--"] ELSE kpi
  /\ sensorChart' =
       IF "charts" \in page
       THEN [made |-> TRUE, labels |-> labels, data |-> sensorsHist]
       ELSE sensorChart
  /\ riskChart' =
       IF "charts" \in page
       THEN [made |-> TRUE, labels |-> labels, data |-> riskHist]
       ELSE riskChart
  /\ UNCHANGED <<main, issuedBy, pc, status, now, hist, log, env, stateText,
                 stateClasses, transform, bannerHidden, timerText, recText, stressPosts>>

\* --------------------------------------------------------- stress controls
\* A click that also shows the banner at once, ahead of the next frame.
StressClickOptimistic(e) ==
  /\ domReady
  /\ "buttons" \in page
  /\ stressPosts < MaxStress
  /\ stressPosts' = stressPosts + 1
  /\ bannerHidden' = (e = "stop")
  /\ UNCHANGED <<main, issuedBy, pc, status, now, hist, log, env, domReady, kpi,
                 sensorChart, riskChart, stateText, stateClasses, transform,
                 timerText, recText>>

\* A click on #btn-stress or #btn-stress-stop: triggerStress(30,0.9) or
\* stopStress() sends its POST and suspends.
StressClick(e) ==
  /\ domReady
  /\ "buttons" \in page
  /\ stressPosts < MaxStress
  /\ stressPosts' = stressPosts + 1
  /\ UNCHANGED <<main, issuedBy, pc, status, now, hist, log, env, domReady, dom>>

\* The POST resolves (any status; the response is not read).
StressResolve(e) ==
  /\ stressPosts > 0
  /\ stressPosts' = stressPosts - 1
  /\ UNCHANGED <<main, issuedBy, pc, status, now, hist, log, env, domReady, dom>>

\* The POST rejects: catch(e){ console.error(...) }.
StressReject(e) ==
  /\ stressPosts > 0
  /\ stressPosts' = stressPosts - 1
  /\ UNCHANGED <<main, issuedBy, pc, status, now, hist, log, env, domReady, dom>>

\* ----------------------------------------------------------- specification
Next ==
  \/ SetInterval
  \/ StartupTick
  \/ TimerFire
  \/ ClockAdvance
  \/ DOMContentLoaded
  \/ PulseEnd
  \/ \E t \in Ticks, st \in Statuses : FetchResolve(t, st)
  \/ \E t \in Ticks : FetchReject(t)
  \/ \E t \in Ticks : JsonReject(t)
  \/ \E t \in Ticks : JsonNull(t)
  \/ \E t \in Ticks, data \in Frames : JsonResolve(t, data)
  \/ \E e \in Endpoints : StressClick(e)
  \/ \E e \in Endpoints : StressResolve(e)
  \/ \E e \in Endpoints : StressReject(e)

Spec == Init /\ [][Next]_vars

\* The event loop runs the script to its end, and the interval timer armed on
\* line 164 keeps firing; nothing promises that a response ever arrives.
FairSpec ==
  Spec /\ WF_vars(SetInterval) /\ WF_vars(StartupTick) /\ WF_vars(TimerFire)

\* ------------------------------------------ fmt and recommend on their own
program == <<main, issuedBy, pc, status, now, hist, log, page, domReady, dom, stressPosts>>

\* The values a frame can hand to fmt, and NaN.
FmtValues ==
  {Null, Undefined, NaN, Obj, Str("abc"), Str("80"), Str(""), Bool(TRUE), Bool(FALSE)}
    \cup {Num(x) : x \in {0, 5, 125, 4050, 6025, 7500, 12000, 0 - 150}}

\* recommend's arguments around each threshold.  risk is what Coerce returns,
\* a number or NaN; the sensor fields and the distance come raw from the frame.
TempValues == {Num(6000), Num(7500), Num(7501), Undefined, Str("80")}
PressureValues == {Num(200), Num(400), Num(401), Undefined}
RiskValues == {Num(0), Num(49), Num(50), Num(69), Num(70), Num(71), Num(100), NaN}
DistanceValues == {Null, Undefined, Num(0), Num(120), Str(""), Bool(FALSE)}

\* system_state as a frame can carry it: absent, null or a string.
StateValues ==
  {Undefined, Null, Str(""), Str("RUNNING"), Str("STOPPED"), Str("FAULT"),
   Str("running"), Str("80")}

PureInit ==
  /\ InitProgram
  /\ page = AllSlots
  /\ \/ \E v \in FmtValues, d \in 0..2 :
          call = Call("fmt", Undefined, Undefined, Undefined, Undefined, v, d, Pending)
     \/ \E temp \in TempValues, pres \in PressureValues, risk \in RiskValues,
           d \in DistanceValues :
          call = Call("recommend", temp, pres, risk, d, Undefined, 0, Pending)
     \/ \E v \in StateValues :
          call = Call("system_state", Undefined, Undefined, Undefined, Undefined, v, 0,
                      Pending)

\* The sensors object of a recommend call.
SensorsOf(c) ==
  [ch \in Channels |->
     IF ch = "temperature_c" THEN c.temp
     ELSE IF ch = "pressure_bar" THEN c.pres
     ELSE Undefined]

CallFmt ==
  /\ call.fn = "fmt"
  /\ call.ret = Pending
  /\ call' = [call EXCEPT !.ret = fmt(call.v, call.prec)]
  /\ UNCHANGED program

CallRecommend ==
  /\ call.fn = "recommend"
  /\ call.ret = Pending
  /\ call' = [call EXCEPT !.ret = recommend(SensorsOf(call), call.risk, call.d)]
  /\ UNCHANGED program

\* The system-state block on its own, for a frame that carries call.v as its
\* system_state and nothing else; the call returns the text it wrote.
CallSystemState ==
  /\ call.fn = "system_state"
  /\ call.ret = Pending
  /\ SetSystemState([FrameEmpty EXCEPT !.system_state = call.v])
  /\ call' = [call EXCEPT !.ret = stateText']
  /\ UNCHANGED <<main, issuedBy, pc, status, now, hist, log, page, domReady, kpi,
                 sensorChart, riskChart, bannerHidden, timerText, recText, stressPosts>>

PureNext == CallFmt \/ CallRecommend \/ CallSystemState

PureSpec == PureInit /\ [][PureNext]_vars

\* ================================================================== claims
\* The last n elements of a sequence, in order.
LastN(seq, n) == IF Len(seq) > n THEN SubSeq(seq, Len(seq) - n + 1, Len(seq)) ELSE seq

\* The values of a tick's 8 pushes, from the log.
LoggedLabels == [i \in 1..Len(log) |-> log[i].label]
LoggedChannel(c) == [i \in 1..Len(log) |-> Coerce(SensorsRead(log[i].frame)[c])]
LoggedRisk == [i \in 1..Len(log) |-> Coerce(log[i].frame.risk)]

HistoryLengths ==
  {Len(labels), Len(riskHist)} \cup {Len(sensorsHist[c]) : c \in Channels}

InFlight == {t \in Ticks : pc[t] \in {"fetch", "json"}}
Failed == {t \in Ticks : pc[t] \in {"netfail", "jsonfail", "typeerror"}}

\* C1: in every reachable state, whatever ticks have completed and however,
\* the 8 history sequences have one common length, and it is at most the
\* capacity.
C1_AlignedAndBounded ==
  /\ Cardinality(HistoryLengths) = 1
  /\ \A n \in HistoryLengths : n <= HISTORY_MAX

\* More frames were appended than the capacity holds, and the sequences are full.
C1_Witness ==
  /\ Len(log) > HISTORY_MAX
  /\ HistoryLengths = {HISTORY_MAX}

C3_FailedTickKeepsHistory ==
  [][\A t \in Ticks :
       (pc[t] \in {"fetch", "json"} /\ pc'[t] \in {"netfail", "jsonfail"})
         => (hist' = hist /\ main' = "started")]_vars

\* A tick failed that way and a tick issued after it appended its frame.
C3_Witness ==
  \E t, u \in Ticks :
    /\ t < u
    /\ pc[t] \in {"netfail", "jsonfail"}
    /\ pc[u] = "appended"
    /\ Len(labels) > 0

\* C6: once the script has run, the timer can issue the next request whatever
\* the earlier ticks are doing, and with a fair timer every request of the run
\* is issued even if no response ever arrives.
C6_TimerIssuesRegardless ==
  /\ [](main = "started" /\ Len(issuedBy) < MaxTicks => ENABLED TimerFire)
  /\ <>(Len(issuedBy) = MaxTicks)

\* Two requests are in flight at once.
C6_Witness == Cardinality(InFlight) >= 2

\* C7: the first tick issued is the startup tick; every tick of the timer, and
\* so every frame a timer tick appended, comes after it.
C7_StartupTickFirst ==
  /\ \A i \in 1..Len(issuedBy) :
       issuedBy[i] = "timer" => (i > 1 /\ issuedBy[1] = "startup")
  /\ \A i \in 1..Len(log) :
       issuedBy[log[i].tick] = "timer" => issuedBy[1] = "startup"
  /\ main # "started" => \A i \in 1..Len(issuedBy) : issuedBy[i] # "timer"

\* A tick of the timer appended a frame.
C7_Witness == \E i \in 1..Len(log) : issuedBy[log[i].tick] = "timer"

\* C4: the step in which a tick holding a non-2xx response ends changes no
\* history sequence and nothing on the page, whatever the body holds.
C4_NonOkResponseAbandoned ==
  [][\A t \in Ticks :
       (pc[t] = "json" /\ status[t] \notin 200..299 /\ pc'[t] # "json")
         => (hist' = hist /\ dom' = dom)]_vars

\* A channel value or risk that is missing or does not convert to a number.
Unusable(v) == v.k \in {"null", "undefined"} \/ ToNumber(v).k # "number"

\* C5: no sensor or risk history holds NaN: every retained entry is a number,
\* and it is 0 where the frame's value was missing or invalid.
C5_NoNaNStored ==
  LET kept == LastN(log, HISTORY_MAX)
  IN /\ \A c \in Channels : \A i \in 1..Len(sensorsHist[c]) :
          /\ sensorsHist[c][i].k = "number"
          /\ Unusable(SensorsRead(kept[i].frame)[c]) => sensorsHist[c][i] = Num(0)
     /\ \A i \in 1..Len(riskHist) :
          /\ riskHist[i].k = "number"
          /\ Unusable(kept[i].frame.risk) => riskHist[i] = Num(0)

Returned(fn) == call.fn = fn /\ call.ret # Pending

\* C8: recommend returns the distance prompt exactly when d is null or
\* undefined, whatever the risk and the sensor sample.
C8_DistancePromptIffAbsent ==
  Returned("recommend") => (call.ret = MSG_DISTANCE <=> call.d \in {Null, Undefined})

\* recommend returned the prompt for an absent distance at critical risk.
C8_Witness ==
  /\ Returned("recommend")
  /\ call.d = Undefined
  /\ call.risk = Num(RISK_CRITICAL)
  /\ call.ret = MSG_DISTANCE

\* The decision table of C9 for one message, a sample s and a risk r: each
\* comparison holds of numbers only.
TableHot(s) ==
  \/ ToNumber(s["temperature_c"]).k = "number" /\ ToNumber(s["temperature_c"]).n > 7500
  \/ ToNumber(s["pressure_bar"]).k = "number" /\ ToNumber(s["pressure_bar"]).n > 400
TableRow(msg, s, r) ==
  /\ msg \in {MSG_CRITICAL, MSG_REDUCE, MSG_MAINTAIN, MSG_SAFE}
  /\ msg = MSG_CRITICAL <=> (r.k = "number" /\ r.n >= 70)
  /\ msg = MSG_REDUCE <=> (r.k = "number" /\ r.n >= 50 /\ r.n < 70 /\ TableHot(s))
  /\ msg = MSG_MAINTAIN <=> (r.k = "number" /\ r.n >= 50 /\ r.n < 70 /\ ~TableHot(s))
  /\ msg = MSG_SAFE <=> (r.k = "number" /\ r.n < 50)

\* C9: after a frame with a distance, the recommendation on display is the
\* row of the decision table that the frame's risk and sensors select.
C9_DecisionTable ==
  (log # <<>> /\ "recommendation" \in page)
    => LET data == log[Len(log)].frame
       IN data.distance_m \notin {Null, Undefined}
            => TableRow(recText, SensorsRead(data), Coerce(data.risk))

\* C10: fmt returns "--" exactly for null, undefined and values that are not
\* a number, and the value fixed to d decimals for every other value.
C10_FallbackIffNotANumber ==
  Returned("fmt") =>
    /\ call.ret = "--" <=> Unusable(call.v)
    /\ ~Unusable(call.v) => call.ret = ToFixed(ToNumber(call.v), call.prec)
    /\ call.ret # "NaN"

\* The stress object tick reads from a frame: data.stress || {active:false,
\* seconds_left:0}.
StressOf(data) ==
  IF data.stress
  THEN [active |-> data.active, seconds_left |-> data.seconds_left]
  ELSE [active |-> Bool(FALSE), seconds_left |-> Num(0)]

BannerSlots == "stress-banner" \in page /\ "stress-timer" \in page

\* C11: on a page with the banner and the countdown, once a frame has been
\* processed the banner is visible exactly when stress.active of the last
\* processed frame is true (a frame without stress is inactive), and while
\* it is visible the countdown shows that frame's seconds_left.
C11_BannerFollowsLastFrame ==
  (BannerSlots /\ log # <<>>)
    => LET stress == StressOf(log[Len(log)].frame)
       IN /\ ~bannerHidden <=> stress.active = Bool(TRUE)
          /\ ~bannerHidden => timerText = JsString(stress.seconds_left)

\* A frame under stress showed the banner with 12 seconds left and the next
\* frame, not under stress, hid it again.
C11_Witness ==
  /\ BannerSlots
  /\ Len(log) >= 2
  /\ StressOf(log[Len(log) - 1].frame) = [active |-> Bool(TRUE), seconds_left |-> Num(1200)]
  /\ StressOf(log[Len(log)].frame).active = Bool(FALSE)
  /\ bannerHidden
  /\ timerText = "12"

StatusSlot == "system-state" \in page

\* C12: on a page with the status slot, once a frame has been processed the
\* running class is set exactly when the last processed frame's system_state
\* is "RUNNING" and the stopped class exactly when it is "STOPPED", so both
\* are unset for any other value; in no reachable state are both set.
C12_StateClassesExclusive ==
  /\ ~({"status-running", "status-stopped"} \subseteq stateClasses)
  /\ (StatusSlot /\ log # <<>>)
       => LET st == log[Len(log)].frame.system_state
          IN /\ "status-running" \in stateClasses <=> st = Str("RUNNING")
             /\ "status-stopped" \in stateClasses <=> st = Str("STOPPED")

\* A RUNNING frame set the running class and the next frame, STOPPED,
\* replaced it by the stopped class.
C12_Witness ==
  /\ StatusSlot
  /\ Len(log) >= 2
  /\ log[Len(log) - 1].frame.system_state = Str("RUNNING")
  /\ log[Len(log)].frame.system_state = Str("STOPPED")
  /\ stateClasses = {"status-stopped"}

\* The step is the synchronous tail of a tick: its 8 pushes and its render.
AppendStep == \E t \in Ticks : pc[t] = "json" /\ pc'[t] = "appended"

\* C13: a step of triggerStress or stopStress (the click that sends the POST,
\* the POST's success, its failure) changes no history sequence, nothing on
\* the page and no tick; only a tick's append step changes a history or the
\* banner; and while a POST is in flight the timer can still issue a tick.
C13_StressControlsInert ==
  /\ [][/\ stressPosts' # stressPosts
             => /\ hist' = hist /\ log' = log /\ dom' = dom
                /\ main' = main /\ issuedBy' = issuedBy /\ pc' = pc
        /\ hist' # hist => AppendStep
        /\ bannerHidden' # bannerHidden => AppendStep]_vars
  /\ [](stressPosts > 0 /\ main = "started" /\ Len(issuedBy) < MaxTicks
          => ENABLED TimerFire)

\* A stress POST is in flight while a tick is in flight, after a frame under
\* stress was processed: the banner on display is the one that frame left.
C13_Witness ==
  /\ stressPosts > 0
  /\ InFlight # {}
  /\ log # <<>>
  /\ BannerSlots
  /\ ~bannerHidden

\* The frame whose values sit at index i of all 8 history sequences.
SameFrameAt(i, e) ==
  /\ labels[i] = e.label
  /\ \A c \in Channels : sensorsHist[c][i] = Coerce(SensorsRead(e.frame)[c])
  /\ riskHist[i] = Coerce(e.frame.risk)

\* C14: a tick's 8 pushes and its render are one step in which no other tick
\* moves, so every index of the 8 history sequences holds the label, the six
\* sensor values and the risk of one and the same processed frame, and after
\* the step the charts and the recommendation show the frame just appended.
C14_AppendRenderAtomic ==
  /\ [](/\ Cardinality(HistoryLengths) = 1
        /\ \A i \in 1..Len(labels) : \E j \in 1..Len(log) : SameFrameAt(i, log[j]))
  /\ [][AppendStep =>
          /\ Cardinality({t \in Ticks : pc'[t] # pc[t]}) = 1
          /\ Len(log') = Len(log) + 1
          /\ sensorChart'.made
               => sensorChart'.labels = labels' /\ sensorChart'.data = sensorsHist'
          /\ riskChart'.made
               => riskChart'.labels = labels' /\ riskChart'.data = riskHist'
          /\ "recommendation" \in page
               => LET data == log'[Len(log')].frame
                  IN recText' = recommend(SensorsRead(data), Coerce(data.risk),
                                          data.distance_m)]_vars

\* The later tick ran its append and render while the earlier tick, its
\* response in hand, still waited for its body.
C14_Witness ==
  \E t, u \in Ticks :
    /\ u < t
    /\ pc[u] = "json"
    /\ pc[t] = "appended"
    /\ Len(labels) > 0
    /\ sensorChart.made

HasFrameShape(data) == data.sensors /\ data.risk # Undefined

\* C16 as stated: a tick whose body parsed but is null or lacks sensors or
\* risk ends without changing a history sequence, so every frame a tick
\* appends has the frame shape.
C16_ShapeErrorAbandoned ==
  [][\A t \in Ticks :
       /\ (pc[t] = "json" /\ pc'[t] = "typeerror") => hist' = hist
       /\ (pc[t] = "json" /\ pc'[t] = "appended")
            => HasFrameShape(log'[Len(log')].frame)]_vars

\* C16 amended: a tick whose body parsed to null ends without changing a
\* history sequence or the page; a tick whose body is an object appends a
\* frame whatever fields it lacks, with 0 for each sensor of a missing
\* sensors object and 0 for a missing risk.
C16_OnlyNullAbandoned ==
  [][\A t \in Ticks :
       /\ (pc[t] = "json" /\ pc'[t] = "typeerror") => (hist' = hist /\ dom' = dom)
       /\ (pc[t] = "json" /\ pc'[t] = "appended")
            => LET data == log'[Len(log')].frame
                   n == Len(riskHist')
               IN /\ Len(log') = Len(log) + 1
                  /\ n > 0 /\ HistoryLengths' = {n}
                  /\ ~data.sensors => \A c \in Channels : sensorsHist'[c][n] = Num(0)
                  /\ data.risk = Undefined => riskHist'[n] = Num(0)]_vars

\* One tick ended on a null body, and the newest entry of every history is
\* the row of zeros that the empty object {} appended.
C16_Witness ==
  /\ \E t \in Ticks : pc[t] = "typeerror"
  /\ log # <<>>
  /\ ~HasFrameShape(log[Len(log)].frame)
  /\ ~log[Len(log)].frame.sensors
  /\ riskHist # <<>>
  /\ riskHist[Len(riskHist)] = Num(0)
  /\ \A c \in Channels : sensorsHist[c][Len(sensorsHist[c])] = Num(0)

\* What the page shows of the telemetry: the KPI texts, the charts, the
\* status text and classes, the banner and its countdown, the recommendation.
Shown ==
  <<kpi, sensorChart, riskChart, stateText, stateClasses, bannerHidden, timerText,
    recText>>

TimeOf(label) == CHOOSE n \in 0..(MaxNow + MaxTicks) : TimeString(n) = label

NonDecreasing(seq) ==
  \A i, j \in 1..Len(seq) : i < j => TimeOf(seq[i]) <= TimeOf(seq[j])

C19_DefaultTextWithoutClass ==
  Returned("system_state") =>
    /\ call.v \in {Undefined, Null, Str("")}
         => (stateText = "RUNNING" /\ stateClasses = {})
    /\ call.v \notin {Undefined, Null, Str("")} => stateText = call.v.s

\* The block ran on a null system_state: the slot reads RUNNING, unstyled.
C19_Witness ==
  /\ Returned("system_state")
  /\ call.v = Null
  /\ stateText = "RUNNING"
  /\ stateClasses = {}
  /\ transform = "scale(1.04)"

====
